---- MODULE Spec2Model ----
(***************************************************************************)
(* blurhash-generator (src/src/main.rs): one run of the command line tool. *)
(* The run validates the component counts, classifies the source string    *)
(* with looks_like_url and looks_like_local_path, fetches or opens the     *)
(* image, decodes it, encodes it and prints the hash.                      *)
(*                                                                         *)
(* Strings are sequences of one-character strings.  The url crate's        *)
(* Url::parse and std::path::Path (Unix) are modelled by what they do on   *)
(* the alphabet the input tokens are written in: the letters a f h p s t w *)
(* and E, the digits 1 and 2, and the characters . / \ : and %.  The       *)
(* transport, the filesystem, the decoder and the encoder are collaborators*)
(* whose Result is chosen by the environment.                              *)
(***************************************************************************)
EXTENDS Integers, Sequences, FiniteSets, TLC

(***************************************************************************)
(* Bounds of the model.                                                    *)
(***************************************************************************)
\* longest source string, in tokens, of a run with the default counts
MaxTokens == 3
\* longest source string, in tokens, of a run with arbitrary counts
MaxRunTokens == 2
\* largest component count supplied on the command line
MaxCount == 10

(***************************************************************************)
(* Program constants.                                                      *)
(***************************************************************************)
DefaultX == 4
DefaultY == 3
MinComponents == 1
MaxComponents == 9

(***************************************************************************)
(* str helpers.                                                            *)
(***************************************************************************)
starts_with(s, p) == Len(s) >= Len(p) /\ SubSeq(s, 1, Len(p)) = p

ends_with(s, p) == Len(s) >= Len(p) /\ SubSeq(s, Len(s) - Len(p) + 1, Len(s)) = p

contains(s, p) == \E i \in 1..(Len(s) - Len(p) + 1) : SubSeq(s, i, i + Len(p) - 1) = p

Drop(s, n) == SubSeq(s, n + 1, Len(s))

\* the least index in I, n when I is empty
FirstOf(I, n) == IF I = {} THEN n ELSE CHOOSE i \in I : \A j \in I : i <= j

\* the index of the first character of s in the set cs, Len(s) + 1 when none is
FirstIn(s, cs) == FirstOf({i \in 1..Len(s) : s[i] \in cs}, Len(s) + 1)

\* the index of the first character of s outside the set cs, Len(s) + 1 when none is
FirstNotIn(s, cs) == FirstOf({i \in 1..Len(s) : s[i] \notin cs}, Len(s) + 1)

RECURSIVE split(_, _)
\* the parts of s, whose first c is at index i
split_at(s, c, i) ==
    IF i > Len(s) THEN <<s>>
    ELSE <<SubSeq(s, 1, i - 1)>> \o split(Drop(s, i), c)

\* str::split(c): the parts of s between the occurrences of c
split(s, c) == split_at(s, c, FirstIn(s, {c}))

RECURSIVE Flatten(_)
Flatten(ts) == IF ts = <<>> THEN <<>> ELSE Head(ts) \o Flatten(Tail(ts))

Alpha == {"a", "f", "h", "p", "s", "t", "w", "E"}
Digit == {"1", "2"}
Digits == <<"0", "1", "2", "3", "4", "5", "6", "7", "8", "9">>

DigitValue(c) == CHOOSE d \in 0..9 : Digits[d + 1] = c

RECURSIVE Value(_)
\* the number an all-digit string denotes in radix 10
Value(s) == IF s = <<>> THEN 0 ELSE 10 * Value(SubSeq(s, 1, Len(s) - 1)) + DigitValue(s[Len(s)])

\* u8 Display: the decimal digits of an octet
OctetStr(n) ==
    IF n >= 100 THEN <<Digits[(n \div 100) + 1], Digits[((n \div 10) % 10) + 1], Digits[(n % 10) + 1]>>
    ELSE IF n >= 10 THEN <<Digits[(n \div 10) + 1], Digits[(n % 10) + 1]>>
    ELSE <<Digits[n + 1]>>

(***************************************************************************)
(* url::Url::parse, as called at line 46.  The result is Err, or Ok with   *)
(* the host the url holds: None, a Domain or an Ipv4 address (an Ipv6 host *)
(* needs '[', which the alphabet lacks).  The parser is the WHATWG one of   *)
(* url 2.x: a host of a special scheme whose last label is a number is an  *)
(* IPv4 address or an error, the host of another scheme is kept opaque.    *)
(***************************************************************************)
ParseErr == [ok |-> FALSE, kind |-> "None", host |-> <<>>]
ParseOk(k, h) == [ok |-> TRUE, kind |-> k, host |-> h]

\* http, https, ftp, ws and wss: the special schemes that are not file
SpecialSchemes ==
    { <<"h","t","t","p">>, <<"h","t","t","p","s">>, <<"f","t","p">>,
      <<"w","s">>, <<"w","s","s">> }

\* Parser::parse_scheme: the index of the ':' that ends a valid scheme, 0 when
\* the input starts with none
parse_scheme(input) ==
    IF input = <<>> \/ input[1] \notin Alpha THEN 0
    ELSE LET i == FirstNotIn(input, Alpha \cup Digit \cup {"."})
         IN IF i <= Len(input) /\ input[i] = ":" THEN i ELSE 0

RECURSIVE percent_decode(_)
\* percent_decode: %2E is the one escape the alphabet can spell
percent_decode(s) ==
    IF s = <<>> THEN <<>>
    ELSE IF starts_with(s, <<"%", "2", "E">>) THEN <<".">> \o percent_decode(Drop(s, 3))
    ELSE <<Head(s)>> \o percent_decode(Tail(s))

\* host::parse_ipv4number in radix 10 (the alphabet has no 0, so no 0x and no
\* octal prefix); numbers of ten digits and more count as overflowing
ipv4number_ok(part) ==
    part # <<>> /\ (\A i \in 1..Len(part) : part[i] \in Digit) /\ Len(part) <= 9

\* the last part of a dotted name, or the one before it when the name ends in '.'
last_part(parts) ==
    IF parts[Len(parts)] = <<>> /\ Len(parts) > 1 THEN parts[Len(parts) - 1]
    ELSE parts[Len(parts)]

all_digits(s) == s # <<>> /\ \A i \in 1..Len(s) : s[i] \in Digit

\* host::ends_in_a_number
ends_in_a_number(domain) == all_digits(last_part(split(domain, ".")))

Pow256(k) == IF k = 0 THEN 1 ELSE IF k = 1 THEN 256 ELSE IF k = 2 THEN 65536 ELSE 16777216

\* parse_ipv4addr, the numbers: the last one fills the octets the others leave
\* (ipv4 > u32::MAX >> (8 * numbers.len()) is an error, as is another above 255)
ipv4_of_numbers(numbers) ==
    IF Len(numbers) > 1 /\ numbers[Len(numbers)] >= Pow256(5 - Len(numbers)) THEN <<>>
    ELSE IF \E i \in 1..(Len(numbers) - 1) : numbers[i] > 255 THEN <<>>
    ELSE [i \in 1..4 |->
            IF i < Len(numbers) THEN numbers[i]
            ELSE (numbers[Len(numbers)] \div Pow256(4 - i)) % 256]

\* parse_ipv4addr, the parts: at most four, each a number
ipv4_of_parts(parts) ==
    IF Len(parts) = 0 \/ Len(parts) > 4 \/ \E i \in 1..Len(parts) : ~ipv4number_ok(parts[i])
    THEN <<>>
    ELSE ipv4_of_numbers([i \in 1..Len(parts) |-> Value(parts[i])])

\* parse_ipv4addr drops one empty last part
drop_empty_last(parts) ==
    IF parts[Len(parts)] = <<>> THEN SubSeq(parts, 1, Len(parts) - 1) ELSE parts

\* host::parse_ipv4addr: the four octets, or <<>> for Err(InvalidIpv4Address)
parse_ipv4addr(domain) == ipv4_of_parts(drop_empty_last(split(domain, ".")))

\* Ipv4Addr Display
Ipv4Str(o) ==
    OctetStr(o[1]) \o <<".">> \o OctetStr(o[2]) \o <<".">> \o OctetStr(o[3]) \o <<".">> \o OctetStr(o[4])

\* Host::Ipv4(parse_ipv4addr(&domain)?)
host_of_ipv4(a) == IF a = <<>> THEN ParseErr ELSE ParseOk("Ipv4", Ipv4Str(a))

\* Host::parse, once the input is percent-decoded (domain_to_ascii leaves the
\* lower-case letters, digits and dots of the alphabet as they are)
host_of_domain(domain) ==
    IF domain = <<>> THEN ParseErr
    ELSE IF \E i \in 1..Len(domain) : domain[i] \in {"%", "/", ":", "\\"} THEN ParseErr
    ELSE IF ends_in_a_number(domain) THEN host_of_ipv4(parse_ipv4addr(domain))
    ELSE ParseOk("Domain", domain)

\* Host::parse, the host of a special scheme
Host_parse(input) == host_of_domain(percent_decode(input))

\* Host::parse_opaque, the host of any other scheme
Host_parse_opaque(input) ==
    IF \E i \in 1..Len(input) : input[i] \in {"/", ":", "\\"} THEN ParseErr
    ELSE ParseOk("Domain", input)

\* parse_port, the digits: a port fits in a u16
port_digits_ok(digits) == Len(digits) <= 5 /\ Value(digits) <= 65535

\* parse_port, at index i, the first character that is no digit
port_end_ok(input, i) ==
    /\ i <= Len(input) => input[i] \in {"/", "\\"}
    /\ port_digits_ok(SubSeq(input, 1, i - 1))

\* Parser::parse_port, on what follows the ':' after the host
parse_port_ok(input) == port_end_ok(input, FirstNotIn(input, Digit))

\* Parser::parse_host_and_port, once the host is parsed: an empty host before a
\* port is an error, an empty host otherwise is no host
host_and_port(host, remaining) ==
    IF ~host.ok THEN ParseErr
    ELSE IF starts_with(remaining, <<":">>) /\ host.host = <<>> THEN ParseErr
    ELSE IF starts_with(remaining, <<":">>) /\ ~parse_port_ok(Tail(remaining)) THEN ParseErr
    ELSE IF host.host = <<>> THEN ParseOk("None", <<>>)
    ELSE host

\* Parser::parse_host, the host string cut from the input: a special scheme
\* takes no empty host
parse_host(host_str, special) ==
    IF special /\ host_str = <<>> THEN ParseErr
    ELSE IF special THEN Host_parse(host_str)
    ELSE Host_parse_opaque(host_str)

\* the authority from index i on, the end of the host
authority_at(input, i, special) ==
    host_and_port(parse_host(SubSeq(input, 1, i - 1), special), Drop(input, i - 1))

\* Parser::after_double_slash: parse_host_and_port (no '@' in the alphabet, so
\* no userinfo); the path, query and fragment that follow never fail
after_double_slash(input, special) ==
    authority_at(input, FirstIn(input, IF special THEN {":", "/", "\\"} ELSE {":", "/"}), special)

\* Parser::parse_with_scheme: a special scheme skips every '/' and '\' before
\* the host; another scheme has an authority only after "//"
parse_with_scheme(scheme, rest) ==
    IF scheme \in SpecialSchemes
    THEN after_double_slash(Drop(rest, FirstNotIn(rest, {"/", "\\"}) - 1), TRUE)
    ELSE IF starts_with(rest, <<"/", "/">>) THEN after_double_slash(Drop(rest, 2), FALSE)
    ELSE ParseOk("None", <<>>)

\* the url whose scheme ends at index c; without a scheme and without a base
\* url the parse fails
parse_url_at(input, c) ==
    IF c = 0 THEN ParseErr
    ELSE parse_with_scheme(SubSeq(input, 1, c - 1), Drop(input, c))

\* Url::parse without a base url
Url_parse(input) == parse_url_at(input, parse_scheme(input))

\* Url::has_host
has_host(u) == u.kind # "None"

\* Url::domain().is_some(): an IP address is a host and no domain
has_domain(u) == u.kind = "Domain"

\* Url::host_str()
host_str_of(u) == u.host

(***************************************************************************)
(* std::path::Path on Unix.                                                *)
(***************************************************************************)
\* Path::is_absolute: the path has a root
is_absolute(s) == starts_with(s, <<"/">>)

\* the last of the components, unless it is ..
last_normal(segs) ==
    IF segs = <<>> \/ segs[Len(segs)] = <<".", ".">> THEN <<>> ELSE segs[Len(segs)]

\* Path::file_name, then to_str and unwrap_or(""): the last component when it
\* is a normal one, "" when the path ends in .. or has no component
file_name(s) == last_normal(SelectSeq(split(s, "/"), LAMBDA c : c # <<>> /\ c # <<".">>))

(***************************************************************************)
(* The heuristics.                                                         *)
(***************************************************************************)
HTTP == <<"h", "t", "t", "p", ":", "/", "/">>
HTTPS == <<"h", "t", "t", "p", "s", ":", "/", "/">>
WWW == <<"w", "w", "w", ".">>
SEP == <<":", "/", "/">>

\* the string Url::parse is given at lines 40-46
url_str(s) == IF ~contains(s, SEP) THEN HTTPS \o s ELSE s

\* a bug looks_like_url could have: the host is read with host_str(), not domain()
url_has_dotted_host(url) ==
    IF url.ok /\ has_host(url)
    THEN /\ contains(host_str_of(url), <<".">>)
         /\ ~ends_with(host_str_of(url), <<".">>)
         /\ ~contains(host_str_of(url), <<"\\">>)
    ELSE FALSE

\* looks_like_url, lines 46-57: the parsed url has a domain with a dot
url_has_dotted_domain(url) ==
    IF url.ok /\ has_host(url) /\ has_domain(url)
    THEN /\ contains(host_str_of(url), <<".">>)
         /\ ~ends_with(host_str_of(url), <<".">>)
         /\ ~contains(host_str_of(url), <<"\\">>)
    ELSE FALSE

looks_like_url(s) ==
    IF starts_with(s, HTTP) \/ starts_with(s, HTTPS) THEN TRUE
    ELSE IF starts_with(s, WWW) THEN TRUE
    ELSE IF starts_with(s, <<".">>) THEN FALSE
    ELSE url_has_dotted_domain(Url_parse(url_str(s)))

\* looks_like_local_path, line 86: a file name with an extension
has_extension(last_segment) ==
    contains(last_segment, <<".">>) /\ ~starts_with(last_segment, <<".">>)

\* a bug looks_like_local_path could have: no rule for relative paths with
\* directory separators (lines 73-76)
looks_like_local_path_no_relative(s) ==
    IF is_absolute(s) THEN TRUE
    ELSE IF (contains(s, <<"\\">>) \/ contains(s, <<"/">>)) /\ Len(s) >= 2 /\ s[2] = ":" THEN TRUE
    ELSE IF contains(s, <<".">>) /\ ~contains(s, SEP) /\ ~starts_with(s, WWW)
         THEN has_extension(file_name(s))
    ELSE FALSE

looks_like_local_path(s) ==
    IF is_absolute(s) THEN TRUE
    ELSE IF (contains(s, <<"\\">>) \/ contains(s, <<"/">>)) /\ Len(s) >= 2 /\ s[2] = ":" THEN TRUE
    ELSE IF (contains(s, <<"\\">>) \/ contains(s, <<"/">>)) /\ ~contains(s, SEP) THEN TRUE
    ELSE IF contains(s, <<".">>) /\ ~contains(s, SEP) /\ ~starts_with(s, WWW)
         THEN has_extension(file_name(s))
    ELSE FALSE

\* a bug load_image could have: the local-path heuristic is not consulted
is_remote_url_only(s) == looks_like_url(s)

\* load_image's condition at line 96
is_remote(s) == looks_like_url(s) /\ ~looks_like_local_path(s)

\* a bug load_image could have: https:// is prepended whatever the string holds
fetch_url_always_prepended(s) == HTTPS \o s

\* the url load_image fetches, lines 98-102
fetch_url(s) == IF ~contains(s, SEP) THEN HTTPS \o s ELSE s

(***************************************************************************)
(* The component counts, Option<u32>, and their validation.                *)
(***************************************************************************)
None == [some |-> FALSE, val |-> 0]
Some(n) == [some |-> TRUE, val |-> n]
unwrap_or(o, d) == IF o.some THEN o.val ELSE d

\* a bug the range could have: the upper end excluded
in_range_exclusive(n) == MinComponents <= n /\ n < MaxComponents

\* (1..=9).contains
in_range(n) == MinComponents <= n /\ n <= MaxComponents

\* a bug the validation could have: the range is checked before the mismatch
validate_range_first(x, y) ==
    IF ~in_range(unwrap_or(x, DefaultX)) \/ ~in_range(unwrap_or(y, DefaultY)) THEN "out_of_range"
    ELSE IF x.some # y.some THEN "mismatched"
    ELSE "ok"

\* the validation of main, lines 119-130 (validate_cli_parameters in the tests)
validate(x, y) ==
    IF x.some # y.some THEN "mismatched"
    ELSE IF ~in_range(unwrap_or(x, DefaultX)) \/ ~in_range(unwrap_or(y, DefaultY)) THEN "out_of_range"
    ELSE "ok"

(***************************************************************************)
(* The inputs.                                                             *)
(***************************************************************************)
Tokens ==
    { HTTP, HTTPS, <<"f", "t", "p", ":", "/", "/">>, WWW, SEP,
      <<"a">>, <<"1">>, <<".">>, <<"/">>, <<"\\">>, <<":">>,
      <<"%", "2", "E">>, <<"a", ".", "a">>, <<"1", ".", "1">> }

Strings(n) == {Flatten(ts) : ts \in UNION {[1..k -> Tokens] : k \in 0..n}}

Counts == {None} \cup {Some(n) : n \in 0..MaxCount}

(***************************************************************************)
(* The state of one run.                                                   *)
(***************************************************************************)
VARIABLES
    image,          \* cli.image
    cx, cy,         \* cli.components_x, cli.components_y
    components_x,   \* main's components_x, once set
    components_y,   \* main's components_y, once set
    pc,             \* the place of the run in main and load_image
    validation,     \* "pending", or the outcome of lines 122-130
    isUrl,          \* looks_like_url(source), once load_image has called it
    isLocal,        \* looks_like_local_path(source), likewise
    mode,           \* "none", then load_image's choice: "Remote" or "Local"
    url,            \* the url handed to get, <<>> before
    status,         \* "none", or the response's status: "success" or "failure"
    fetches,        \* calls of reqwest::blocking::get
    bodyReads,      \* calls of response.bytes()
    opens,          \* calls of image::open
    decodes,        \* runs of the decoder (load_from_memory, or within image::open)
    img,            \* "none", "ok" once an image is decoded
    encodes,        \* calls of blurhash::encode
    blurhash,       \* "none", or encode's Result: "Ok" or "Err"
    stdout,         \* the lines printed: the hash of (components_x, components_y)
    stderr,         \* "none", or the error reported
    cause,          \* "none", or what a load error wraps
    exitCode        \* -1 while running, then the process's exit status

vars == <<image, cx, cy, components_x, components_y, pc, validation, isUrl, isLocal,
          mode, url, status, fetches, bodyReads, opens, decodes, img, encodes, blurhash,
          stdout, stderr, cause, exitCode>>

cliVars == <<image, cx, cy>>
ioVars == <<fetches, bodyReads, opens, decodes, encodes>>

Init ==
    /\ \/ image \in Strings(MaxTokens) /\ cx = None /\ cy = None
       \/ image \in Strings(MaxRunTokens) /\ cx \in Counts /\ cy \in Counts
    /\ components_x = 0 /\ components_y = 0
    /\ pc = "main"
    /\ validation = "pending"
    /\ isUrl = FALSE /\ isLocal = FALSE
    /\ mode = "none"
    /\ url = <<>>
    /\ status = "none"
    /\ fetches = 0 /\ bodyReads = 0 /\ opens = 0 /\ decodes = 0 /\ encodes = 0
    /\ img = "none"
    /\ blurhash = "none"
    /\ stdout = <<>>
    /\ stderr = "none"
    /\ cause = "none"
    /\ exitCode = -1

\* main returns Err(e): the runtime reports e and the process exits with 1
ReturnErr(e, c) ==
    /\ stderr' = e
    /\ cause' = c
    /\ exitCode' = 1
    /\ pc' = "exited"

\* a bug main could have: a failed validation is reported and the run goes on
ValidateNoAbort ==
    /\ pc = "main"
    /\ components_x' = unwrap_or(cx, DefaultX)
    /\ components_y' = unwrap_or(cy, DefaultY)
    /\ validation' = validate(cx, cy)
    /\ stderr' = IF validation' = "ok" THEN stderr ELSE validation'
    /\ pc' = "load_image"
    /\ UNCHANGED <<cliVars, ioVars, isUrl, isLocal, mode, url, status, img, blurhash, stdout,
                   cause, exitCode>>

\* main, lines 117-130
Validate ==
    /\ pc = "main"
    /\ components_x' = unwrap_or(cx, DefaultX)
    /\ components_y' = unwrap_or(cy, DefaultY)
    /\ validation' = validate(cx, cy)
    /\ IF validation' = "ok"
       THEN pc' = "load_image" /\ UNCHANGED <<stderr, cause, exitCode>>
       ELSE ReturnErr(validation', "none")
    /\ UNCHANGED <<cliVars, ioVars, isUrl, isLocal, mode, url, status, img, blurhash, stdout>>

\* main, line 132, and load_image, lines 96-102: the choice of Remote or Local
\* (looks_like_local_path is pure, so calling it when looks_like_url is false
\* changes nothing)
LoadImage ==
    /\ pc = "load_image"
    /\ isUrl' = looks_like_url(image)
    /\ isLocal' = looks_like_local_path(image)
    /\ IF is_remote(image)
       THEN mode' = "Remote" /\ url' = fetch_url(image) /\ pc' = "get"
       ELSE mode' = "Local" /\ url' = url /\ pc' = "open"
    /\ UNCHANGED <<cliVars, components_x, components_y, validation, ioVars, status, img,
                   blurhash, stdout, stderr, cause, exitCode>>

\* load_image, line 104: get(url)?
Get ==
    /\ pc = "get"
    /\ fetches' = fetches + 1
    /\ \E r \in {"transport_error", "success", "failure"} :
          IF r = "transport_error"
          THEN ReturnErr("load_failed", "transport") /\ status' = status
          ELSE status' = r /\ pc' = "status" /\ UNCHANGED <<stderr, cause, exitCode>>
    /\ UNCHANGED <<cliVars, components_x, components_y, validation, isUrl, isLocal, mode, url,
                   bodyReads, opens, decodes, encodes, img, blurhash, stdout>>

\* a bug load_image could have: the status is not looked at
CheckStatusIgnored ==
    /\ pc = "status"
    /\ pc' = "bytes"
    /\ UNCHANGED <<cliVars, components_x, components_y, validation, isUrl, isLocal, mode, url,
                   status, ioVars, img, blurhash, stdout, stderr, cause, exitCode>>

\* load_image, lines 105-107
CheckStatus ==
    /\ pc = "status"
    /\ IF status # "success"
       THEN ReturnErr("load_failed", "status")
       ELSE pc' = "bytes" /\ UNCHANGED <<stderr, cause, exitCode>>
    /\ UNCHANGED <<cliVars, components_x, components_y, validation, isUrl, isLocal, mode, url,
                   status, ioVars, img, blurhash, stdout>>

\* load_image, line 108: response.bytes()?
ReadBody ==
    /\ pc = "bytes"
    /\ bodyReads' = bodyReads + 1
    /\ \E ok \in BOOLEAN :
          IF ok
          THEN pc' = "load_from_memory" /\ UNCHANGED <<stderr, cause, exitCode>>
          ELSE ReturnErr("load_failed", "body")
    /\ UNCHANGED <<cliVars, components_x, components_y, validation, isUrl, isLocal, mode, url,
                   status, fetches, opens, decodes, encodes, img, blurhash, stdout>>

\* load_image, line 109: image::load_from_memory(&bytes)?
LoadFromMemory ==
    /\ pc = "load_from_memory"
    /\ decodes' = decodes + 1
    /\ \E ok \in BOOLEAN :
          IF ok
          THEN img' = "ok" /\ pc' = "encode" /\ UNCHANGED <<stderr, cause, exitCode>>
          ELSE img' = img /\ ReturnErr("load_failed", "decode")
    /\ UNCHANGED <<cliVars, components_x, components_y, validation, isUrl, isLocal, mode, url,
                   status, fetches, bodyReads, opens, encodes, blurhash, stdout>>

\* load_image, line 112: image::open(Path::new(source))?, which opens the file
\* and, when that succeeded, decodes it
Open ==
    /\ pc = "open"
    /\ opens' = opens + 1
    /\ \E r \in {"io_error", "decode_error", "ok"} :
          /\ decodes' = IF r = "io_error" THEN decodes ELSE decodes + 1
          /\ IF r = "ok"
             THEN img' = "ok" /\ pc' = "encode" /\ UNCHANGED <<stderr, cause, exitCode>>
             ELSE img' = img /\ ReturnErr("load_failed", IF r = "io_error" THEN "fs" ELSE "decode")
    /\ UNCHANGED <<cliVars, components_x, components_y, validation, isUrl, isLocal, mode, url,
                   status, fetches, bodyReads, encodes, blurhash, stdout>>

\* main, lines 133-136: the pixels of the image, and encode
Encode ==
    /\ pc = "encode"
    /\ encodes' = encodes + 1
    /\ \E r \in {"Ok", "Err"} : blurhash' = r
    /\ pc' = "println"
    /\ UNCHANGED <<cliVars, components_x, components_y, validation, isUrl, isLocal, mode, url,
                   status, fetches, bodyReads, opens, decodes, img, stdout, stderr, cause,
                   exitCode>>

\* a bug main could have: a line is printed before the result is looked at
PrintlnAlways ==
    /\ pc = "println"
    /\ stdout' = Append(stdout, <<components_x, components_y>>)
    /\ IF blurhash = "Ok"
       THEN stderr' = stderr /\ exitCode' = 0
       ELSE stderr' = "panic" /\ exitCode' = 101
    /\ pc' = "exited"
    /\ UNCHANGED <<cliVars, components_x, components_y, validation, isUrl, isLocal, mode, url,
                   status, ioVars, img, blurhash, cause>>

\* main, lines 137-139: blurhash.expect(..) panics on Err, and the process
\* exits with 101; on Ok the hash is printed and main returns Ok(())
Println ==
    /\ pc = "println"
    /\ IF blurhash = "Ok"
       THEN /\ stdout' = Append(stdout, <<components_x, components_y>>)
            /\ stderr' = stderr
            /\ exitCode' = 0
       ELSE /\ stdout' = stdout
            /\ stderr' = "panic"
            /\ exitCode' = 101
    /\ pc' = "exited"
    /\ UNCHANGED <<cliVars, components_x, components_y, validation, isUrl, isLocal, mode, url,
                   status, ioVars, img, blurhash, cause>>

Next ==
    \/ Validate
    \/ LoadImage
    \/ Get
    \/ CheckStatus
    \/ ReadBody
    \/ LoadFromMemory
    \/ Open
    \/ Encode
    \/ Println

Spec == Init /\ [][Next]_vars
(***************************************************************************)
(* The properties.                                                         *)
(***************************************************************************)
NoIO == fetches = 0 /\ bodyReads = 0 /\ opens = 0 /\ decodes = 0 /\ encodes = 0

AllSucceeded ==
    /\ validation = "ok"
    /\ mode = "Remote" => status = "success" /\ bodyReads = 1
    /\ mode = "Local" => opens = 1
    /\ img = "ok"
    /\ blurhash = "Ok"

\* C1: whenever exactly one of -x and -y is supplied, whatever its value, the
\* validation fails with the mismatched-components error: the run reports that
\* error and ends, and the missing count is not defaulted into a run that goes on
C1_MismatchRejected ==
    (pc # "main" /\ cx.some # cy.some) =>
        /\ validation = "mismatched"
        /\ stderr = "mismatched"
        /\ pc = "exited"
        /\ exitCode = 1
        /\ NoIO
        /\ stdout = <<>>

\* C1, its case: -x 10 alone is rejected as mismatched, not as out of range
C1_Witness ==
    /\ pc = "exited"
    /\ cx = Some(10) /\ cy = None
    /\ stderr = "mismatched"

\* C2: with both counts supplied or both absent, the validation succeeds exactly
\* when both resulting values, the supplied ones or the defaults 4 and 3, lie
\* in 1..9; a failure is the out-of-range error
C2_RangeDecides ==
    (pc # "main" /\ cx.some = cy.some) =>
        /\ components_x = (IF cx.some THEN cx.val ELSE 4)
        /\ components_y = (IF cy.some THEN cy.val ELSE 3)
        /\ validation = "ok" <=> (components_x \in 1..9 /\ components_y \in 1..9)
        /\ validation # "ok" =>
              validation = "out_of_range" /\ stderr = "out_of_range" /\ pc = "exited"
        /\ validation = "ok" => stderr \notin {"mismatched", "out_of_range"}

\* C2, its case: no count supplied, the defaults (4, 3) are accepted
C2_Witness ==
    /\ cx = None /\ cy = None
    /\ validation = "ok"
    /\ components_x = 4 /\ components_y = 3
    /\ pc = "load_image"

\* C3: a run whose counts fail the validation ends before any fetch, open,
\* body read, decode or encode; any of these happens only in a validated run
C3_ValidationBeforeIO ==
    /\ validation \in {"mismatched", "out_of_range"} => pc = "exited" /\ NoIO
    /\ ~NoIO => validation = "ok" /\ validate(cx, cy) = "ok"
    /\ validation = "pending" => NoIO

\* C3, its case: counts out of range, the run is over and nothing was touched
C3_Witness ==
    /\ validation = "out_of_range"
    /\ pc = "exited"
    /\ cx.some /\ cy.some
    /\ NoIO

\* C4: a string classified (url, not local) is never opened as a file, a string
\* classified local is never fetched, a string classified (not url, not local)
\* is opened as a file, and a run fetches or opens at most once
C4_Dispatch ==
    /\ (isUrl /\ ~isLocal) => opens = 0
    /\ isLocal => fetches = 0
    /\ (mode # "none" /\ ~isUrl /\ ~isLocal) =>
          mode = "Local" /\ fetches = 0 /\ (pc = "open" \/ opens = 1)
    /\ fetches + opens <= 1

\* C4, its case: both heuristics say yes, and the file was opened
C4_Witness ==
    /\ isUrl /\ isLocal
    /\ contains(image, <<"/">>)
    /\ opens = 1 /\ fetches = 0

\* C5: when encode returns Err after a successful load, main returns an error
\* (exit status 1) as it does for validation and load errors; it does not panic
C5_EncodeFailureReturned ==
    (pc = "exited" /\ blurhash = "Err") => (stderr # "panic" /\ exitCode = 1)

\* C6: a string that begins with http:// or https:// is classified (url, not
\* local), and a validated run fetches it unmodified and opens no file
C6_HttpIsRemote ==
    ((starts_with(image, HTTP) \/ starts_with(image, HTTPS)) /\ mode # "none") =>
        /\ isUrl /\ ~isLocal
        /\ mode = "Remote"
        /\ url = image
        /\ opens = 0
        /\ pc = "get" \/ fetches = 1

\* C6, its case: an https url has been fetched as it was written
C6_Witness ==
    /\ starts_with(image, HTTPS)
    /\ Len(image) > Len(HTTPS)
    /\ fetches = 1
    /\ url = image

\* C7: a hash line is written, and the exit status is 0, only when validation,
\* retrieval, decoding and encoding all succeeded, and then exactly one; a run
\* in which a stage fails writes nothing to stdout, reports an error and exits
\* with a non-zero status; no stage runs twice
C7_OneHashOrAnError ==
    /\ Len(stdout) <= 1
    /\ stdout # <<>> => AllSucceeded /\ pc = "exited" /\ exitCode = 0
    /\ exitCode # -1 <=> pc = "exited"
    /\ pc = "exited" =>
          /\ exitCode = 0 <=> AllSucceeded
          /\ exitCode = 0 => Len(stdout) = 1 /\ stderr = "none"
          /\ exitCode # 0 => stdout = <<>> /\ stderr # "none"
    /\ fetches <= 1 /\ bodyReads <= 1 /\ opens <= 1 /\ decodes <= 1 /\ encodes <= 1

\* C7, its case: a run that printed its hash and exited with 0
C7_Witness ==
    /\ pc = "exited"
    /\ exitCode = 0
    /\ stdout = << <<4, 3>> >>

\* the strings looks_like_url decides by its rule 4
Rule4Applies(s) ==
    /\ ~starts_with(s, HTTP) /\ ~starts_with(s, HTTPS)
    /\ ~starts_with(s, WWW) /\ ~starts_with(s, <<".">>)

\* the host has a dot, does not end with one and holds no backslash
Dotted(h) == contains(h, <<".">>) /\ ~ends_with(h, <<".">>) /\ ~contains(h, <<"\\">>)

\* C8 as stated: by rule 4 the result is true exactly when the string parses as
\* a url that has a host, of any kind, with a dot, no dot at its end and no '\'
C8_AnyHost ==
    (mode # "none" /\ Rule4Applies(image)) =>
        (isUrl <=> /\ Url_parse(url_str(image)).ok
                   /\ Url_parse(url_str(image)).kind # "None"
                   /\ Dotted(Url_parse(url_str(image)).host))

\* C8 amended: by rule 4 the result is true exactly when the string parses as a
\* url whose host is a domain name with a dot, no dot at its end and no '\';
\* for a host that is an IP address the result is false
C8_DomainHost ==
    (mode # "none" /\ Rule4Applies(image)) =>
        /\ isUrl <=> /\ Url_parse(url_str(image)).ok
                     /\ Url_parse(url_str(image)).kind = "Domain"
                     /\ Dotted(Url_parse(url_str(image)).host)
        /\ Url_parse(url_str(image)).kind = "Ipv4" => ~isUrl

\* C8, its case: the host of ftp://1.1 is the address 1.0.0.1, and the string
\* is no url to looks_like_url
C8_Witness ==
    /\ mode # "none"
    /\ Rule4Applies(image)
    /\ Url_parse(url_str(image)).kind = "Ipv4"
    /\ Dotted(Url_parse(url_str(image)).host)
    /\ ~isUrl

\* C9: after a response whose status is no success, the body is not read, the
\* decoder does not run, the fetch is not repeated and main reports a load
\* failure with the status as its cause; fetched bytes are decoded only after a
\* success status and a body read
C9_StatusChecked ==
    /\ status = "failure" =>
          /\ pc \in {"status", "exited"}
          /\ fetches = 1 /\ bodyReads = 0 /\ decodes = 0 /\ img = "none"
          /\ pc = "exited" =>
                stderr = "load_failed" /\ cause = "status" /\ exitCode = 1
    /\ (mode = "Remote" /\ decodes > 0) => status = "success" /\ bodyReads = 1

\* C9, its case: a failure status ended the run
C9_Witness ==
    /\ status = "failure"
    /\ pc = "exited"
    /\ cause = "status"

\* C10 as stated: a string without "://" is fetched only if it begins with
\* "www." and holds neither '/' nor '\'
C10_OnlyWww ==
    (mode = "Remote" /\ ~contains(image, SEP)) =>
        /\ starts_with(image, WWW)
        /\ ~contains(image, <<"/">>) /\ ~contains(image, <<"\\">>)

\* C10 amended: a string without "://" is fetched, as https:// and the string,
\* only if it holds neither '/' nor '\' and either begins with "www." or holds
\* no '.' while the url parser finds a dotted domain in it (a percent-encoded dot)
C10_WwwOrEncodedDot ==
    (mode = "Remote" /\ ~contains(image, SEP)) =>
        /\ url = HTTPS \o image
        /\ ~contains(image, <<"/">>) /\ ~contains(image, <<"\\">>)
        /\ \/ starts_with(image, WWW)
           \/ ~contains(image, <<".">>) /\ isUrl

\* C10, its case: the bare domain a.a is a url to looks_like_url, and it was
\* opened as a file
C10_Witness ==
    /\ image = <<"a", ".", "a">>
    /\ isUrl
    /\ mode = "Local"
    /\ opens = 1 /\ fetches = 0
====
